---- MODULE Spec2Model ----
(***************************************************************************)
(* Model of backend/main.py: the Socket.IO frame / disconnect handlers,    *)
(* the session dictionary video_sessions, the hourly sweep and the REST    *)
(* delete and summary endpoints, together with the pure functions they     *)
(* call.  Spec runs the handlers; SpecLong gives the run one more frame;   *)
(* SpecLive runs frames and the sweep under fairness; SpecNormalize runs   *)
(* the label mapping and SpecSummary the summary, each on its own inputs.  *)
(*                                                                         *)
(* Conventions.  A Python value that may be None or absent is a sequence   *)
(* of length at most one (<<>> is None, <<x>> is x).  A Python str that    *)
(* the code inspects character by character (a sid, a session key) is a    *)
(* sequence of one-character strings.  A float is an exact rational        *)
(* <<n, d>> in lowest terms with d > 0.  The dict video_sessions is the    *)
(* sequence of its items in insertion order, which is the order Python     *)
(* iterates it in.                                                         *)
(***************************************************************************)
EXTENDS Integers, Sequences, FiniteSets, TLC

(* ------------------------------ bounds --------------------------------- *)

\* frame events received over the whole run
MaxFrames == 2
\* frame events of one connection received and not yet handled
MaxPending == 2
\* seconds the clock may run past a whole hour
ClockSlack == 1
\* raw labels of one classifier output, where the label mapping is run on its own
MaxLabels == 3
\* The history cap of main.py:291-292 is 500; the model runs the same code
\* with a cap small enough for the eviction to happen within MaxFrames.
HistoryCap == 1

(* ----------------------------- rationals ------------------------------- *)

RECURSIVE GCD(_, _)
GCD(a, b) == IF b = 0 THEN a ELSE GCD(b, a % b)

Abs(n) == IF n < 0 THEN -n ELSE n

\* n/d in lowest terms, d > 0
Rat(n, d) ==
    LET g == GCD(Abs(n), Abs(d))
        s == IF d < 0 THEN -1 ELSE 1
    IN  <<(s * n) \div g, (s * d) \div g>>

Zero == <<0, 1>>
One == <<1, 1>>

RatAdd(p, q) == Rat(p[1] * q[2] + q[1] * p[2], p[2] * q[2])
RatMul(p, q) == Rat(p[1] * q[1], p[2] * q[2])
RatDiv(p, q) == Rat(p[1] * q[2], p[2] * q[1])
RatLess(p, q) == p[1] * q[2] < q[1] * p[2]
RatMax(p, q) == IF RatLess(p, q) THEN q ELSE p
RatMin(p, q) == IF RatLess(q, p) THEN q ELSE p

(* ------------------------------ strings -------------------------------- *)

Digit(n) == <<SubSeq(<<"0", "1", "2", "3", "4", "5", "6", "7", "8", "9">>, n + 1, n + 1)[1]>>

RECURSIVE NatStr(_)
NatStr(n) == IF n < 10 THEN Digit(n) ELSE NatStr(n \div 10) \o Digit(n % 10)

\* str(n) of a Python int, as the f-string of create_session_key formats it
IntStr(n) == IF n < 0 THEN <<"-">> \o NatStr(-n) ELSE NatStr(n)

\* str.startswith
StartsWith(s, prefix) ==
    /\ Len(prefix) <= Len(s)
    /\ SubSeq(s, 1, Len(prefix)) = prefix

(* --------------------------- configuration ----------------------------- *)

EMOTION_MAP ==
    [happy |-> "joy", surprise |-> "surprise", angry |-> "anger", sad |-> "sadness",
     fear |-> "surprise", disgust |-> "anger", neutral |-> "neutral"]

APP_EMOTIONS == <<"joy", "surprise", "anger", "sadness", "neutral">>

AppLabels == {APP_EMOTIONS[i] : i \in 1..Len(APP_EMOTIONS)}

\* EMOTION_MAP.get(label, "neutral")
MapLabel(label) ==
    IF label \in DOMAIN EMOTION_MAP THEN EMOTION_MAP[label] ELSE "neutral"

(* ------------------- images, face locator, classifier ------------------ *)

\* The encoded images a client sends (the "img" data URL), named by what the
\* external libraries make of them.
\*   garbage : not a decodable data URL
\*   tiny    : decodes to a 32x32 image, no face
\*   noface  : decodes to a 224x224 image, no face
\*   face    : decodes to a 224x224 image with one face
\*   crash   : decodes to a 224x224 image on which the model call raises
Images == {"garbage", "tiny", "noface", "face", "crash"}

MIN_SIZE == 64

MinOf(size) == IF size[1] < size[2] THEN size[1] ELSE size[2]

\* decode_image: None when the data URL does not decode, else the RGB image
decode_image(data_url) ==
    CASE data_url = "garbage" -> <<>>
      [] data_url = "tiny" -> <<[name |-> "tiny", size |-> <<32, 32>>]>>
      [] OTHER -> <<[name |-> data_url, size |-> <<224, 224>>]>>

\* crop_face_mediapipe: the crop around the most confident detection, or None
crop_face_mediapipe(image_pil) ==
    IF image_pil.name = "face"
    THEN <<[name |-> "face_crop", size |-> <<128, 128>>]>>
    ELSE <<>>

\* model.config.id2label, in index order
ID2LABEL == <<"sad", "disgust", "angry", "neutral", "fear", "surprise", "happy">>

\* torch.softmax(logits): the probabilities of the labels of ID2LABEL, in tenths
Softmax(image_pil) ==
    CASE image_pil.name = "face_crop" -> <<0, 0, 0, 0, 2, 3, 5>>
      [] image_pil.name = "noface" -> <<1, 0, 0, 9, 0, 0, 0>>
      [] OTHER -> <<0, 0, 0, 10, 0, 0, 0>>

ModelRaises(image_pil) == image_pil.name = "crash"

ZeroVector == [e \in AppLabels |-> Zero]

\* MaxTakeOver that adds the scores of the raw labels of one application label
RECURSIVE SumTakeOver(_, _, _, _)
SumTakeOver(result, id2label, probs, i) ==
    IF i > Len(probs) THEN result
    ELSE LET mapped == MapLabel(id2label[i])
             prob == Rat(probs[i], 10)
         IN  SumTakeOver(IF mapped \in DOMAIN result
                         THEN [result EXCEPT ![mapped] = RatAdd(result[mapped], prob)]
                         ELSE result,
                         id2label, probs, i + 1)

\* the loop of lines 157-161 over probs[i .. ], the labels being id2label
RECURSIVE MaxTakeOver(_, _, _, _)
MaxTakeOver(result, id2label, probs, i) ==
    IF i > Len(probs) THEN result
    ELSE LET mapped == MapLabel(id2label[i])
             prob == Rat(probs[i], 10)
         IN  MaxTakeOver(IF mapped \in DOMAIN result
                         THEN [result EXCEPT ![mapped] = RatMax(result[mapped], prob)]
                         ELSE result,
                         id2label, probs, i + 1)

\* that loop with the labels of the model that main.py loads
MaxTake(result, probs, i) == MaxTakeOver(result, ID2LABEL, probs, i)

RECURSIVE SumOver(_, _)
SumOver(f, S) ==
    IF S = {} THEN Zero
    ELSE LET x == CHOOSE y \in S : TRUE
         IN  RatAdd(f[x], SumOver(f, S \ {x}))

\* sum(d.values())
SumValues(d) == SumOver(d, DOMAIN d)

\* max(d.values())
MaxValue(d) ==
    CHOOSE v \in {d[k] : k \in DOMAIN d} : \A k \in DOMAIN d : ~RatLess(v, d[k])

\* lines 163-168
Normalize(result) ==
    LET total == SumValues(result)
    IN  IF RatLess(Zero, total)
        THEN [k \in DOMAIN result |-> RatDiv(result[k], total)]
        ELSE [result EXCEPT !["neutral"] = One]

\* lines 156-170 on their own: the scores of the application labels for the
\* probabilities probs (in tenths) of the raw labels id2label
MapAndNormalize(id2label, probs) ==
    Normalize(MaxTakeOver(ZeroVector, id2label, probs, 1))

\* predict_emotion_local; image_pil is a one-element sequence or <<>> (None)
predict_emotion_local(image_pil) ==
    IF image_pil = <<>> THEN ZeroVector
    ELSE IF MinOf(image_pil[1].size) < MIN_SIZE THEN ZeroVector
    ELSE IF ModelRaises(image_pil[1]) THEN [ZeroVector EXCEPT !["neutral"] = One]
    ELSE Normalize(MaxTake(ZeroVector, Softmax(image_pil[1]), 1))

\* min(max_emotion_value * 1.2, 1.0)
Confidence(emotions) == RatMin(RatMul(MaxValue(emotions), Rat(12, 10)), One)

(* ----------------------------- session keys ---------------------------- *)

\* A videoUrl value of the payload: a str or an int.
StrUrl(s) == [t |-> "str", s |-> s, n |-> 0]
NumUrl(n) == [t |-> "num", s |-> "", n |-> n]

\* hash(video_url) in CPython: hash(n) of a small int is n, except that
\* hash(-1) is -2; hash("") is 0, and "" is the one str the payloads use.
Hash(v) ==
    IF v.t = "num" THEN (IF v.n = -1 THEN -2 ELSE v.n) ELSE 0

\* f"{sid}_{hash(video_url)}_{int(datetime.now().timestamp())}"
create_session_key(sid, video_url, clock) ==
    sid \o <<"_">> \o IntStr(Hash(video_url)) \o <<"_">> \o IntStr(clock)

(* ------------------------------ dict helpers --------------------------- *)

Keys(sessions) == {sessions[i].key : i \in 1..Len(sessions)}

\* video_sessions[key]
Get(sessions, key) ==
    sessions[CHOOSE i \in 1..Len(sessions) : sessions[i].key = key]

\* DictSet as video_sessions.setdefault(key, rec)
DictSetDefault(sessions, rec) ==
    IF rec.key \in Keys(sessions) THEN sessions ELSE Append(sessions, rec)

\* video_sessions[key] = rec: a new key goes last, an existing key keeps its place
DictSet(sessions, rec) ==
    IF rec.key \in Keys(sessions)
    THEN [i \in 1..Len(sessions) |-> IF sessions[i].key = rec.key THEN rec ELSE sessions[i]]
    ELSE Append(sessions, rec)

\* del video_sessions[key] for every key of gone
DictDel(sessions, gone) == SelectSeq(sessions, LAMBDA s : s.key \notin gone)

(* -------------------------------- inputs ------------------------------- *)

\* Socket.IO connection identifiers.  One is a prefix of the other up to the
\* separator that create_session_key puts after the sid.
Sids == {<<"a">>, <<"a", "_", "b">>}

\* frame payloads; a key the client left out is <<>>
Payload(img, timestamp, videoTime, videoUrl) ==
    [img |-> img, timestamp |-> timestamp, videoTime |-> videoTime, videoUrl |-> videoUrl]

Payloads ==
    { Payload(<<>>, <<1>>, <<5>>, <<NumUrl(-1)>>),
      Payload(<<"face">>, <<>>, <<>>, <<>>),
      Payload(<<"garbage">>, <<2>>, <<5>>, <<NumUrl(-2)>>),
      Payload(<<"face">>, <<2>>, <<5>>, <<NumUrl(-1)>>),
      Payload(<<"tiny">>, <<1>>, <<>>, <<NumUrl(-1)>>),
      Payload(<<"noface">>, <<1>>, <<5>>, <<NumUrl(-2)>>) }

\* dict.get(key, default)
GetOr(opt, default) == IF opt = <<>> THEN default ELSE opt[1]

HOUR == 3600

MaxClock == HOUR + ClockSlack

(* ------------------------------ REST bodies ---------------------------- *)

\* The session dict and the JSON body that delete_session leaves and returns.
\* delete_session under a key that is not in the dict raising KeyError:
delete_session_unchecked(sessions, session_id) ==
    IF session_id \in Keys(sessions)
    THEN [store |-> DictDel(sessions, {session_id}),
          body |-> [message |-> <<"deleted", session_id>>]]
    ELSE [store |-> sessions, body |-> [raised |-> "KeyError"]]

\* lines 436-440
delete_session(sessions, session_id) ==
    IF session_id \in Keys(sessions)
    THEN [store |-> DictDel(sessions, {session_id}),
          body |-> [message |-> <<"deleted", session_id>>]]
    ELSE [store |-> sessions,
          body |-> [error |-> "Session not found", session_id |-> session_id]]

\* the entries the loops of lines 467-468 visit, in the order they visit them
RECURSIVE AllEntries(_)
AllEntries(sessions) ==
    IF sessions = <<>> THEN <<>>
    ELSE Head(sessions).emotion_history \o AllEntries(Tail(sessions))

\* sum(values)
RECURSIVE SeqSum(_)
SeqSum(values) ==
    IF values = <<>> THEN Zero ELSE RatAdd(Head(values), SeqSum(Tail(values)))

\* sum(values) / len(values) if values else 0.0
Mean(values) ==
    IF values # <<>> THEN RatDiv(SeqSum(values), Rat(Len(values), 1)) ELSE Zero

\* all_emotions[emotion] after the loops of lines 467-474
ValuesOf(entries, emotion) ==
    LET has == SelectSeq(entries, LAMBDA en : emotion \in DOMAIN en.emotions)
    IN  [i \in 1..Len(has) |-> has[i].emotions[emotion]]

\* max(d, key=d.get) of a dict whose keys are APP_EMOTIONS in that order: the
\* first key, in dict order, that has the largest value
MaxKey(d) ==
    LET i == CHOOSE m \in 1..Len(APP_EMOTIONS) :
                 /\ \A j \in 1..Len(APP_EMOTIONS) :
                       ~RatLess(d[APP_EMOTIONS[m]], d[APP_EMOTIONS[j]])
                 /\ \A j \in 1..(m - 1) : RatLess(d[APP_EMOTIONS[j]], d[APP_EMOTIONS[m]])
    IN  APP_EMOTIONS[i]

\* line 461
NoSessions == [message |-> "No active sessions"]

\* lines 463-487
Summary(sessions) ==
    LET entries == AllEntries(sessions)
        all_confidences == [i \in 1..Len(entries) |-> entries[i].confidence]
        avg_emotions == [e \in AppLabels |-> Mean(ValuesOf(entries, e))]
    IN  [total_sessions |-> Len(sessions),
         total_data_points |-> Len(entries),
         average_confidence |-> Mean(all_confidences),
         average_emotions_across_sessions |-> avg_emotions,
         most_common_emotion |-> MaxKey(avg_emotions)]

\* get_analytics_summary without the test of line 460
get_analytics_summary_unguarded(sessions) == Summary(sessions)

\* get_analytics_summary: the JSON body it returns
get_analytics_summary(sessions) ==
    IF sessions = <<>> THEN NoSessions ELSE Summary(sessions)

(* -------------------------------- state -------------------------------- *)

VARIABLES
    video_sessions,  \* the dict, as the sequence of its items in insertion order
    clock,           \* datetime.now(), in whole seconds since the server started
    conn,            \* sid -> "open" | "closed"
    pending,         \* sid -> frame events received and not yet handled
    received,        \* frame events received so far
    pc,              \* the handler on the event loop:
                     \* "idle" | "infer" | "emit" | "swept" | "reply"
    running,         \* the sid of the frame handler on the event loop, or <<>>
    data,            \* <<payload>> of that frame handler, or <<>>
    last_emit,       \* <<the "emotion" event that handler passed to sio.emit>>, or <<>>
    before,          \* history: video_sessions as the handler on the loop found it
    appended,        \* history: key -> every entry appended to the session at that key
    last_append,     \* history: key -> the clock at the last append to that session
    reported,        \* history, kept by SpecLong: <<sid, videoUrl, session_id>> of
                     \* the first success result since the last delete,
                     \* disconnect or sweep, or <<>>
    reply,           \* <<what the REST handler that ran last returned>>, or <<>>
    classified       \* <<id2label, probs, result>> of one run of the label mapping
                     \* of predict_emotion_local on its own, or <<>>

vars == <<video_sessions, clock, conn, pending, received, pc, running, data,
          last_emit, before, appended, last_append, reported, reply, classified>>

Init ==
    /\ video_sessions = <<>>
    /\ clock = 0
    /\ conn = [c \in Sids |-> "open"]
    /\ pending = [c \in Sids |-> 0]
    /\ received = 0
    /\ pc = "idle"
    /\ running = <<>>
    /\ data = <<>>
    /\ last_emit = <<>>
    /\ before = <<>>
    /\ appended = <<>>
    /\ last_append = <<>>
    /\ reported = <<>>
    /\ reply = <<>>
    /\ classified = <<>>

\* No handler is between its first and its last statement: the event loop can
\* start one.
LoopFree == pc = "idle"

\* the history variables after the sessions of gone were deleted
Forget(gone) ==
    /\ appended' = [k \in DOMAIN appended \ gone |-> appended[k]]
    /\ last_append' = [k \in DOMAIN last_append \ gone |-> last_append[k]]
    /\ reported' = <<>>

(* ------------------------------- handlers ------------------------------ *)

\* A frame event of an open connection arrives; its handler is scheduled.
\* limit caps the frame events of the run.
ReceiveUpTo(sid, limit) ==
    /\ LoopFree
    /\ conn[sid] = "open"
    /\ received < limit
    /\ pending[sid] < MaxPending
    /\ pending' = [pending EXCEPT ![sid] = @ + 1]
    /\ received' = received + 1
    /\ UNCHANGED <<reply, classified, video_sessions, clock, conn, pc, running, data, last_emit, before,
                   appended, last_append, reported>>

Receive(sid) == ReceiveUpTo(sid, MaxFrames)

\* the same with room for one more frame event
ReceiveLong(sid) == ReceiveUpTo(sid, MaxFrames + 1)

\* line 219
SessionsToRemove(sessions, sid) ==
    {k \in Keys(sessions) : StartsWith(k, sid \o <<"_">>)}

\* disconnect(sid).  The frame events of sid that were scheduled and not yet
\* handled stay scheduled: frame() is called for them afterwards.
Disconnect(sid) ==
    /\ LoopFree
    /\ conn[sid] = "open"
    /\ conn' = [conn EXCEPT ![sid] = "closed"]
    /\ video_sessions' = DictDel(video_sessions, SessionsToRemove(video_sessions, sid))
    /\ Forget(SessionsToRemove(video_sessions, sid))
    /\ UNCHANGED <<reply, classified, clock, pending, received, pc, running, data, last_emit, before>>

NeutralOnly == [e \in {"neutral"} |-> One]

\* MissingResult with the timestamp read as the except branch reads it
MissingResultDefaulted(sid, d) ==
    [to |-> sid, emotions |-> NeutralOnly, timestamp |-> <<GetOr(d.timestamp, 0)>>,
     videoTime |-> GetOr(d.videoTime, 0), confidence |-> Zero,
     face_detected |-> FALSE, session_id |-> <<>>, error |-> <<>>]

\* the event of lines 234-240
MissingResult(sid, d) ==
    [to |-> sid, emotions |-> NeutralOnly, timestamp |-> d.timestamp,
     videoTime |-> GetOr(d.videoTime, 0), confidence |-> Zero,
     face_detected |-> FALSE, session_id |-> <<>>, error |-> <<>>]

\* ErrorResult without the "error" key
ErrorResultSilent(sid, d, e) ==
    [to |-> sid, emotions |-> NeutralOnly, timestamp |-> <<GetOr(d.timestamp, 0)>>,
     videoTime |-> GetOr(d.videoTime, 0), confidence |-> Zero,
     face_detected |-> FALSE, session_id |-> <<>>, error |-> <<>>]

\* the event of lines 306-313
ErrorResult(sid, d, e) ==
    [to |-> sid, emotions |-> NeutralOnly, timestamp |-> <<GetOr(d.timestamp, 0)>>,
     videoTime |-> GetOr(d.videoTime, 0), confidence |-> Zero,
     face_detected |-> FALSE, session_id |-> <<>>, error |-> <<e>>]

\* Emit without to=sid
EmitToAll(event) ==
    /\ pc' = "emit"
    /\ last_emit' = <<[event EXCEPT !.to = <<>>]>>

\* await sio.emit("emotion", event, to=sid), the last statement of frame()
Emit(event) ==
    /\ pc' = "emit"
    /\ last_emit' = <<event>>

\* frame, lines 228-246: the event loop calls frame(sid, d) for a scheduled
\* frame event; the handler validates the payload and decodes the image.
FrameBegin(sid, d) ==
    /\ LoopFree
    /\ pending[sid] > 0
    /\ pending' = [pending EXCEPT ![sid] = @ - 1]
    /\ running' = sid
    /\ data' = <<d>>
    /\ before' = video_sessions
    /\ IF d.img = <<>> \/ d.timestamp = <<>>
       THEN Emit(MissingResult(sid, d))
       ELSE IF decode_image(d.img[1]) = <<>>
       THEN Emit(ErrorResult(sid, d, "Failed to decode image"))
       ELSE /\ pc' = "infer"
            /\ UNCHANGED last_emit
    /\ UNCHANGED <<reply, classified, video_sessions, clock, conn, received, appended, last_append, reported>>

\* FindExisting with the key compared to the sid itself
FindExistingWholeKey(sessions, sid, video_url) ==
    LET hits == {i \in 1..Len(sessions) :
                    /\ sessions[i].key = sid
                    /\ sessions[i].video_url = video_url}
    IN  IF hits = {} THEN <<>>
        ELSE <<sessions[CHOOSE i \in hits : \A j \in hits : i <= j].key>>

\* the scan of lines 263-267: the first item, in dict order, that matches
FindExisting(sessions, sid, video_url) ==
    LET hits == {i \in 1..Len(sessions) :
                    /\ StartsWith(sessions[i].key, sid \o <<"_">>)
                    /\ sessions[i].video_url = video_url}
    IN  IF hits = {} THEN <<>>
        ELSE <<sessions[CHOOSE i \in hits : \A j \in hits : i <= j].key>>

\* KeepLast with the slice of line 292 taken from the front, [:500]
KeepFirst(history) ==
    IF Len(history) > HistoryCap THEN SubSeq(history, 1, HistoryCap) ELSE history

\* KeepLast of a history that is kept in the order of the client timestamps
KeepLastByTimestamp(history) ==
    LET sorted == SortSeq(history, LAMBDA x, y : x.timestamp[1] < y.timestamp[1])
    IN  IF Len(sorted) > HistoryCap
        THEN SubSeq(sorted, Len(sorted) - HistoryCap + 1, Len(sorted))
        ELSE sorted

\* lines 291-292
KeepLast(history) ==
    IF Len(history) > HistoryCap
    THEN SubSeq(history, Len(history) - HistoryCap + 1, Len(history))
    ELSE history

\* frame, lines 248-302: face crop, inference, session update, emit
FrameInfer ==
    /\ pc = "infer"
    /\ LET d == data[1]
           sid == running
           timestamp == d.timestamp
           video_time == GetOr(d.videoTime, 0)
           video_url == GetOr(d.videoUrl, StrUrl(""))
           img_pil == decode_image(d.img[1])
           face_crop == crop_face_mediapipe(img_pil[1])
           input_img == IF face_crop # <<>> THEN face_crop ELSE img_pil
           emotions == predict_emotion_local(input_img)
           confidence == Confidence(emotions)
           existing_session == FindExisting(video_sessions, sid, video_url)
           session_key == IF existing_session # <<>> THEN existing_session[1]
                          ELSE create_session_key(sid, video_url, clock)
           created == IF existing_session # <<>> THEN video_sessions
                      ELSE DictSet(video_sessions,
                                   [key |-> session_key, start_time |-> clock,
                                    video_url |-> video_url, emotion_history |-> <<>>,
                                    client_id |-> sid])
           emotion_entry == [timestamp |-> timestamp, video_time |-> video_time,
                             emotions |-> emotions, confidence |-> confidence,
                             face_detected |-> face_crop # <<>>]
           session == Get(created, session_key)
           history == KeepLast(Append(session.emotion_history, emotion_entry))
       IN  /\ video_sessions' = DictSet(created, [session EXCEPT !.emotion_history = history])
           /\ appended' =
                [k \in DOMAIN appended \cup {session_key} |->
                    IF k # session_key THEN appended[k]
                    ELSE IF existing_session # <<>> THEN Append(appended[k], emotion_entry)
                    ELSE <<emotion_entry>>]
           /\ last_append' =
                [k \in DOMAIN appended \cup {session_key} |->
                    IF k = session_key THEN clock ELSE last_append[k]]
           /\ Emit([to |-> sid, emotions |-> emotions, timestamp |-> timestamp,
                    videoTime |-> video_time, confidence |-> confidence,
                    face_detected |-> face_crop # <<>>,
                    session_id |-> <<session_key>>, error |-> <<>>])
    /\ UNCHANGED <<reply, classified, clock, conn, pending, received, running, data, before, reported>>

\* sio.emit is done and frame() returns: the event loop is free again.
\* noting: the run keeps the history variable reported.
FrameReturnNoting(noting) ==
    /\ pc = "emit"
    /\ pc' = "idle"
    /\ running' = <<>>
    /\ data' = <<>>
    /\ last_emit' = <<>>
    /\ before' = <<>>
    /\ reported' =
         IF ~noting \/ last_emit[1].session_id = <<>> \/ reported # <<>> THEN reported
         ELSE <<running, GetOr(data[1].videoUrl, StrUrl("")), last_emit[1].session_id[1]>>
    /\ UNCHANGED <<reply, classified, video_sessions, clock, conn, pending, received, appended, last_append>>

FrameReturn == FrameReturnNoting(FALSE)

FrameReturnLong == FrameReturnNoting(TRUE)

\* Expired with the comparison of line 191 as >=
ExpiredFromOneHour(sessions, current_time) ==
    {sessions[i].key : i \in {j \in 1..Len(sessions) :
                                current_time - sessions[j].start_time >= HOUR}}

\* Expired with two hours for the one of line 191
ExpiredAfterTwoHours(sessions, current_time) ==
    {sessions[i].key : i \in {j \in 1..Len(sessions) :
                                current_time - sessions[j].start_time > 2 * HOUR}}

\* lines 190-192
Expired(sessions, current_time) ==
    {sessions[i].key : i \in {j \in 1..Len(sessions) :
                                current_time - sessions[j].start_time > HOUR}}

\* clean_old_sessions, called by periodic_cleanup and by DELETE /sessions/cleanup
CleanOldSessions ==
    /\ LoopFree
    /\ pc' = "swept"
    /\ before' = video_sessions
    /\ video_sessions' = DictDel(video_sessions, Expired(video_sessions, clock))
    /\ reported' = <<>>
    /\ UNCHANGED <<reply, classified, clock, conn, pending, received, running, data, last_emit,
                   appended, last_append>>

\* the caller of clean_old_sessions goes on: cleanup_sessions returns its
\* counts, periodic_cleanup sleeps again
CleanupReturn ==
    /\ pc = "swept"
    /\ pc' = "idle"
    /\ before' = <<>>
    /\ Forget(DOMAIN appended \ Keys(video_sessions))
    /\ UNCHANGED <<reply, classified, video_sessions, clock, conn, pending, received, running, data,
                   last_emit>>

\* what a REST handler returned
Reply(op, session_id, again, body) ==
    [op |-> op, session_id |-> session_id, again |-> again, body |-> body]

\* The last REST response is the deletion of session_id: the client that got
\* it sends the same DELETE once more.
Repeats(session_id) ==
    /\ pc = "reply"
    /\ reply[1].op = "delete"
    /\ reply[1].session_id = <<session_id>>
    /\ "message" \in DOMAIN reply[1].body

\* DELETE /session/{session_id}
DeleteSession(session_id) ==
    /\ LoopFree \/ Repeats(session_id)
    /\ LET r == delete_session(video_sessions, session_id)
       IN  /\ video_sessions' = r.store
           /\ reply' = <<Reply("delete", <<session_id>>, ~LoopFree, r.body)>>
    /\ pc' = "reply"
    /\ before' = video_sessions
    /\ Forget({session_id})
    /\ UNCHANGED <<classified, clock, conn, pending, received, running, data, last_emit>>

\* GET /analytics/summary
GetAnalyticsSummary ==
    /\ LoopFree
    /\ pc' = "reply"
    /\ reply' = <<Reply("summary", <<>>, FALSE, get_analytics_summary(video_sessions))>>
    /\ UNCHANGED <<classified, video_sessions, clock, conn, pending, received, running, data,
                   last_emit, before, appended, last_append, reported>>

\* the response of the REST handler is with its client
Respond ==
    /\ pc = "reply"
    /\ pc' = "idle"
    /\ reply' = <<>>
    /\ before' = <<>>
    /\ UNCHANGED <<classified, video_sessions, clock, conn, pending, received, running, data,
                   last_emit, appended, last_append, reported>>

\* Time passes: a second, or an hour.  A handler reads the clock at one point
\* of its run, so time that passes during the run is time that passed before it.
Tick(dt) ==
    /\ LoopFree
    /\ clock + dt <= MaxClock
    /\ (clock + dt) % HOUR <= ClockSlack
    /\ clock' = clock + dt
    /\ UNCHANGED <<reply, classified, video_sessions, conn, pending, received, pc, running, data,
                   last_emit, before, appended, last_append, reported>>

\* a session id no session has
UnknownKey == <<"n", "o", "n", "e">>

\* the session ids of the DELETE requests that clients send
DeleteKeys ==
    Keys(video_sessions) \cup {UnknownKey}
        \cup (IF pc = "reply" /\ reply[1].op = "delete" THEN {reply[1].session_id[1]} ELSE {})

Next ==
    \/ \E sid \in Sids : Receive(sid)
    \/ \E sid \in Sids : Disconnect(sid)
    \/ \E sid \in Sids, d \in Payloads : FrameBegin(sid, d)
    \/ FrameInfer
    \/ FrameReturn
    \/ CleanOldSessions
    \/ CleanupReturn
    \/ \E k \in DeleteKeys : DeleteSession(k)
    \/ Respond
    \/ \E dt \in {1, HOUR} : Tick(dt)

Spec == Init /\ [][Next]_vars

\* The same program on a run one frame event longer, with the history of the
\* session ids reported.
NextLong ==
    \/ \E sid \in Sids : ReceiveLong(sid)
    \/ \E sid \in Sids : Disconnect(sid)
    \/ \E sid \in Sids, d \in Payloads : FrameBegin(sid, d)
    \/ FrameInfer
    \/ FrameReturnLong
    \/ CleanOldSessions
    \/ CleanupReturn
    \/ \E k \in DeleteKeys : DeleteSession(k)
    \/ Respond
    \/ \E dt \in {1, HOUR} : Tick(dt)

SpecLong == Init /\ [][NextLong]_vars

(* ------------------- frames and the periodic sweep --------------------- *)

\* The frame handler and periodic_cleanup on the event loop, with no
\* disconnect and no DELETE request to remove a session for the sweep.
NextLive ==
    \/ \E sid \in Sids : Receive(sid)
    \/ \E sid \in Sids, d \in Payloads : FrameBegin(sid, d)
    \/ FrameInfer
    \/ FrameReturn
    \/ CleanOldSessions
    \/ CleanupReturn
    \/ \E dt \in {1, HOUR} : Tick(dt)

\* The step of FrameInfer as pc shows it: frame() goes from its inference to
\* its emit. It is possible exactly when pc = "infer", as FrameInfer is, and
\* FrameInfer is the only action of the handlers that takes it.
InferStep == pc = "infer" /\ pc' = "emit"

\* Time passes; a handler that is on the event loop goes on to its end (none
\* of them waits for anything but its own emit); periodic_cleanup, which
\* startup_event starts and which loops forever on sleep(3600), gets the
\* loop again and again.
Fairness ==
    /\ SF_vars(\E dt \in {1, HOUR} : Tick(dt))
    /\ SF_vars(CleanOldSessions)
    /\ WF_vars(CleanupReturn)
    /\ WF_pc(InferStep)
    /\ WF_vars(FrameReturn)

SpecLive == Init /\ [][NextLive]_vars /\ Fairness

(* ----------------------- the summary on its own ------------------------ *)

\* sessions of the stores the summary is run on
MaxSessions == 3

\* classifier outputs: the probabilities, in tenths, of the labels of ID2LABEL
SummaryProbs ==
    {<<0, 0, 0, 4, 0, 0, 6>>, <<0, 0, 0, 10, 0, 0, 0>>,
     <<0, 0, 0, 0, 2, 3, 5>>, <<1, 0, 0, 9, 0, 0, 0>>}

\* the session that frame() makes of the first frame of connection "a" for
\* the video n, the classifier output being probs
SessionOf(n, probs) ==
    LET emotions == Normalize(MaxTake(ZeroVector, probs, 1))
    IN  [key |-> create_session_key(<<"a">>, NumUrl(n), 0), start_time |-> 0,
         video_url |-> NumUrl(n),
         emotion_history |-> <<[timestamp |-> <<n>>, video_time |-> 0,
                                emotions |-> emotions,
                                confidence |-> Confidence(emotions),
                                face_detected |-> FALSE]>>,
         client_id |-> <<"a">>]

\* stores of one to MaxSessions sessions
SummaryStores ==
    UNION {{[n \in 1..len |-> SessionOf(n, rows[n])] : rows \in [1..len -> SummaryProbs]} :
              len \in 1..MaxSessions}

InitSummary ==
    /\ video_sessions \in SummaryStores
    /\ clock = 0
    /\ conn = [c \in Sids |-> "open"]
    /\ pending = [c \in Sids |-> 0]
    /\ received = 0
    /\ pc = "idle"
    /\ running = <<>>
    /\ data = <<>>
    /\ last_emit = <<>>
    /\ before = <<>>
    /\ appended = <<>>
    /\ last_append = <<>>
    /\ reported = <<>>
    /\ reply = <<>>
    /\ classified = <<>>

NextSummary ==
    \/ GetAnalyticsSummary
    \/ Respond

SpecSummary == InitSummary /\ [][NextSummary]_vars

(* ------------------- the label mapping on its own ---------------------- *)

\* raw labels a classifier may have: those of EMOTION_MAP and one it does not list
RawLabels == DOMAIN EMOTION_MAP \cup {"contempt"}

\* model.config.id2label of a classifier with MaxLabels labels
LabelTables ==
    {t \in [1..MaxLabels -> RawLabels] : \A i, j \in 1..MaxLabels : t[i] = t[j] => i = j}

\* probabilities, in tenths
ProbValues == {0, 2, 5}

InitNormalize ==
    /\ video_sessions = <<>>
    /\ clock = 0
    /\ conn = [c \in Sids |-> "open"]
    /\ pending = [c \in Sids |-> 0]
    /\ received = 0
    /\ pc = "idle"
    /\ running = <<>>
    /\ data = <<>>
    /\ last_emit = <<>>
    /\ before = <<>>
    /\ appended = <<>>
    /\ last_append = <<>>
    /\ reported = <<>>
    /\ reply = <<>>
    /\ classified \in {<<[id2label |-> t, probs |-> p, result |-> <<>>]>> :
                           t \in LabelTables, p \in [1..MaxLabels -> ProbValues]}

\* lines 156-170 run on the labels and probabilities drawn
Classify ==
    /\ classified # <<>>
    /\ classified[1].result = <<>>
    /\ classified' =
         <<[classified[1] EXCEPT
              !.result = <<MapAndNormalize(classified[1].id2label, classified[1].probs)>>]>>
    /\ UNCHANGED <<video_sessions, clock, conn, pending, received, pc, running, data,
                   last_emit, before, appended, last_append, reported, reply>>

NextNormalize == Classify

SpecNormalize == InitNormalize /\ [][NextNormalize]_vars

(* -------------------------------- claims ------------------------------- *)

Min(a, b) == IF a < b THEN a ELSE b

Range(seq) == {seq[i] : i \in 1..Len(seq)}

\* the handler on the loop is frame() at its emit, with a success result
EmitsSuccess == pc = "emit" /\ last_emit[1].session_id # <<>>

\* the videoUrl the frame handler on the loop works with (line 231)
CurrentUrl == GetOr(data[1].videoUrl, StrUrl(""))

C2_SameSessionReported ==
    (EmitsSuccess /\ reported # <<>> /\ reported[1] = running /\ reported[2] = CurrentUrl) =>
        /\ last_emit[1].session_id[1] = reported[3]
        /\ Keys(video_sessions) \subseteq Keys(before)

\* C3: a frame that creates a session gives it a key that no session of the
\* store has, so that every session the store held is still there, unchanged.
C3_FreshKey ==
    (EmitsSuccess /\ FindExisting(before, running, CurrentUrl) = <<>>) =>
        /\ last_emit[1].session_id[1] \notin Keys(before)
        /\ \A i \in 1..Len(before) : video_sessions[i] = before[i]

\* C4: disconnect(sid) removes the sessions whose client_id is sid and leaves
\* the sessions of every other connection in the store, unchanged.
C4_DisconnectRemovesOwnOnly ==
    [][\A sid \in Sids :
          Disconnect(sid) =>
              video_sessions' = SelectSeq(video_sessions, LAMBDA s : s.client_id # sid)]_vars

\* C5: once disconnect(sid) has run, the store holds no session owned by sid.
C5_NoSessionAfterDisconnect ==
    \A sid \in Sids :
        conn[sid] = "closed" => \A s \in Range(video_sessions) : s.client_id # sid

\* C6: a sweep removes exactly the sessions created more than an hour before
\* it and keeps every other session as it was, whenever their last append was.
C6_SweepByCreationTime ==
    pc = "swept" =>
        video_sessions = SelectSeq(before, LAMBDA s : s.start_time + HOUR >= clock)

\* a sweep that removed a session appended to in the second of the sweep
C6_SweptActiveSession ==
    /\ pc = "swept"
    /\ \E s \in Range(before) :
          /\ s.key \notin Keys(video_sessions)
          /\ last_append[s.key] = clock

IsDistribution(v) ==
    /\ DOMAIN v = AppLabels
    /\ \A e \in AppLabels : ~RatLess(v[e], Zero)
    /\ SumValues(v) = One

\* C7: every emotion vector of a success result or of a session history is a
\* distribution over the five labels that sums to 1 (the degenerate vector,
\* neutral = 1 and the rest 0, is one).
C7_EmotionsSumToOne ==
    /\ EmitsSuccess => IsDistribution(last_emit[1].emotions)
    /\ \A s \in Range(video_sessions) :
          \A i \in 1..Len(s.emotion_history) : IsDistribution(s.emotion_history[i].emotions)

MissingField == data[1].img = <<>> \/ data[1].timestamp = <<>>

\* C8: a frame without img or without timestamp emits emotions {neutral: 1.0},
\* confidence 0.0 and face_detected false, with the timestamp and videoTime of
\* the payload, and leaves the store as it was.
C8_MissingFieldResult ==
    (pc = "emit" /\ MissingField) =>
        /\ last_emit[1].to = running
        /\ last_emit[1].emotions = [e \in {"neutral"} |-> <<1, 1>>]
        /\ last_emit[1].confidence = <<0, 1>>
        /\ last_emit[1].face_detected = FALSE
        /\ last_emit[1].session_id = <<>>
        /\ last_emit[1].timestamp = data[1].timestamp
        /\ data[1].videoTime # <<>> => last_emit[1].videoTime = data[1].videoTime[1]
        /\ video_sessions = before

\* a frame with an image and no timestamp, handled while the store holds a session
C8_MissingTimestampHandled ==
    /\ pc = "emit"
    /\ data[1].img # <<>>
    /\ data[1].timestamp = <<>>
    /\ video_sessions # <<>>

\* C9: a frame whose image does not decode emits the degenerate result with an
\* error string, leaves the store as it was and leaves the connection and its
\* scheduled frames as they were, so that its later frames are handled.
C9_DecodeFailureResult ==
    [][\A sid \in Sids, d \in Payloads :
          (/\ FrameBegin(sid, d)
           /\ d.img # <<>>
           /\ d.timestamp # <<>>
           /\ decode_image(d.img[1]) = <<>>) =>
              /\ pc' = "emit"
              /\ last_emit'[1].to = sid
              /\ last_emit'[1].emotions = [e \in {"neutral"} |-> <<1, 1>>]
              /\ last_emit'[1].confidence = <<0, 1>>
              /\ last_emit'[1].face_detected = FALSE
              /\ last_emit'[1].error # <<>>
              /\ video_sessions' = video_sessions
              /\ conn' = conn
              /\ \A o \in Sids \ {sid} : pending'[o] = pending[o]]_vars

\* the handler of a frame whose image did not decode, about to return with
\* the store holding a session
C9_DecodeFailureHandled ==
    /\ pc = "emit"
    /\ data[1].img = <<"garbage">>
    /\ last_emit[1].error # <<>>
    /\ video_sessions # <<>>

\* C10: while the inference of one connection's frame is in progress, a
\* scheduled frame of another connection can be handled.
C10_OthersNotBlocked ==
    \A sid \in Sids :
        (pc = "infer" /\ running # sid /\ pending[sid] > 0) =>
            ENABLED (\E d \in Payloads : FrameBegin(sid, d))

\* the history, before the handler on the loop ran, of the session it reports
HistoryBefore ==
    IF FindExisting(before, running, CurrentUrl) = <<>> THEN <<>>
    ELSE Get(before, last_emit[1].session_id[1]).emotion_history

\* the history of the session the handler on the loop reports
HistoryNow == Get(video_sessions, last_emit[1].session_id[1]).emotion_history

MaxProbOf(emotion) ==
    LET c == classified[1]
        S == {c.probs[i] : i \in {j \in 1..Len(c.probs) : MapLabel(c.id2label[j]) = emotion}}
             \cup {0}
    IN  CHOOSE x \in S : \A y \in S : y <= x

TotalOfMax ==
    MaxProbOf("joy") + MaxProbOf("surprise") + MaxProbOf("anger") + MaxProbOf("sadness")
        + MaxProbOf("neutral")

\* C12: the score of an application label is the largest probability among
\* the raw labels mapped to it (an unlisted raw label counts for neutral)
\* divided by the total of these maxima; when the total is zero the result
\* is neutral = 1 and 0 for the other labels.
C12_MaxTakeRenormalized ==
    (classified # <<>> /\ classified[1].result # <<>>) =>
        LET result == classified[1].result[1]
        IN  /\ DOMAIN result = AppLabels
            /\ \A e \in AppLabels :
                  /\ result[e][2] > 0
                  /\ IF TotalOfMax > 0
                     THEN result[e][1] * TotalOfMax = MaxProbOf(e) * result[e][2]
                     ELSE result[e] = IF e = "neutral" THEN <<1, 1>> ELSE <<0, 1>>

\* a run in which fear and surprise have different positive probabilities and
\* a label that EMOTION_MAP does not list has a positive one
C12_OverlapAndUnlisted ==
    /\ classified # <<>>
    /\ classified[1].result # <<>>
    /\ \E i, j, k \in 1..Len(classified[1].probs) :
          /\ classified[1].id2label[i] = "fear"
          /\ classified[1].id2label[j] = "surprise"
          /\ classified[1].id2label[k] \notin DOMAIN EMOTION_MAP
          /\ classified[1].probs[i] > classified[1].probs[j]
          /\ classified[1].probs[j] > 0
          /\ classified[1].probs[k] > 0

\* a DELETE handler has returned
DeleteReplied == pc = "reply" /\ reply[1].op = "delete"

\* C13: DELETE of a key of the store removes that session and no other and
\* says so; DELETE of a key that is not in the store, one that was deleted
\* just before included, returns the not-found body, raises nothing and leaves
\* the store as it was.
C13_DeleteIdempotent ==
    DeleteReplied =>
        LET k == reply[1].session_id[1]
            body == reply[1].body
        IN  /\ "raised" \notin DOMAIN body
            /\ IF k \in Keys(before)
               THEN /\ DOMAIN body = {"message"}
                    /\ video_sessions = SelectSeq(before, LAMBDA s : s.key # k)
                    /\ Len(video_sessions) = Len(before) - 1
               ELSE /\ body = [error |-> "Session not found", session_id |-> k]
                    /\ video_sessions = before
            /\ reply[1].again => k \notin Keys(before)

\* the same DELETE sent a second time, while the store holds another session
C13_DeletedAgain ==
    /\ DeleteReplied
    /\ reply[1].again
    /\ "error" \in DOMAIN reply[1].body
    /\ video_sessions # <<>>

\* the labels that have the highest score of an entry
DominantOf(entry) ==
    {e \in DOMAIN entry.emotions :
        \A o \in DOMAIN entry.emotions : ~RatLess(entry.emotions[e], entry.emotions[o])}

\* the number of entries of the store in which emotion is the dominant label
DominantCount(emotion) ==
    LET entries == AllEntries(video_sessions)
    IN  Cardinality({i \in 1..Len(entries) : DominantOf(entries[i]) = {emotion}})

\* a summary of a store has been returned
SummaryReplied == pc = "reply" /\ reply[1].op = "summary" /\ video_sessions # <<>>

\* C14: when every entry of the store has one dominant label, no label is the
\* dominant label of more entries than most_common_emotion is.
C14_MostFrequentDominant ==
    (/\ SummaryReplied
     /\ \A i \in 1..Len(AllEntries(video_sessions)) :
           Cardinality(DominantOf(AllEntries(video_sessions)[i])) = 1) =>
        \A e \in AppLabels :
            DominantCount(reply[1].body.most_common_emotion) >= DominantCount(e)

RECURSIVE TotalLen(_)
TotalLen(sessions) ==
    IF sessions = <<>> THEN 0
    ELSE Len(Head(sessions).emotion_history) + TotalLen(Tail(sessions))

\* C15: in every state in which the event loop can run the summary handler,
\* what get_analytics_summary returns for the store of that state is the
\* no-sessions body when the store is empty, and otherwise has total_sessions
\* the number of sessions, total_data_points the sum of the history lengths
\* and averages that no division by zero produced.
C15_SummaryTotals ==
    LoopFree =>
        LET body == get_analytics_summary(video_sessions)
        IN  IF video_sessions = <<>>
            THEN body = [message |-> "No active sessions"]
            ELSE /\ body.total_sessions = Len(video_sessions)
                 /\ body.total_data_points = TotalLen(video_sessions)
                 /\ body.average_confidence[2] > 0
                 /\ \A e \in AppLabels : body.average_emotions_across_sessions[e][2] > 0
                 /\ body.most_common_emotion \in AppLabels

\* a store of several sessions, on which the summary handler can run
C15_SeveralSessions ==
    /\ pc = "idle"
    /\ Len(video_sessions) > 1
    /\ get_analytics_summary(video_sessions).total_data_points > 1
    /\ get_analytics_summary(video_sessions).total_sessions > 1

\* C16: the session a frame is appended to (the one its result names) has
\* the frame's connection as client_id.
C16_OwnSessionOnly ==
    EmitsSuccess =>
        Get(video_sessions, last_emit[1].session_id[1]).client_id = running

\* C17: no two sessions of the store have the same client_id and video_url.
C17_OneSessionPerPair ==
    \A i, j \in 1..Len(video_sessions) :
        (/\ video_sessions[i].client_id = video_sessions[j].client_id
         /\ video_sessions[i].video_url = video_sessions[j].video_url) => i = j

\* a frame of a pair that has a session, handled a second or more after the
\* session was created, and appended to it
C17_PairSeenAgain ==
    /\ EmitsSuccess
    /\ FindExisting(before, running, CurrentUrl) # <<>>
    /\ Get(video_sessions, last_emit[1].session_id[1]).client_id = running
    /\ Get(video_sessions, last_emit[1].session_id[1]).start_time < clock
    /\ Len(video_sessions) = Len(before)

\* the frame handler on the loop got past validation and decoding
OnSuccessPath ==
    /\ ~MissingField
    /\ decode_image(data[1].img[1]) # <<>>

\* C19: a frame handler emits one event, to its own connection, before it
\* returns: past validation and decoding it is a result with a session_id and
\* no error, otherwise a degenerate result without session_id; a handler that
\* has not emitted yet is on its way to the success result.
C19_OneEmission ==
    /\ pc = "emit" =>
          /\ Len(last_emit) = 1
          /\ last_emit[1].to = running
          /\ IF OnSuccessPath
             THEN /\ last_emit[1].session_id # <<>>
                  /\ last_emit[1].error = <<>>
             ELSE /\ last_emit[1].session_id = <<>>
                  /\ last_emit[1].emotions = [e \in {"neutral"} |-> <<1, 1>>]
                  /\ last_emit[1].confidence = <<0, 1>>
                  /\ last_emit[1].face_detected = FALSE
    /\ pc = "infer" => (last_emit = <<>> /\ OnSuccessPath)
    /\ running # <<>> <=> pc \in {"infer", "emit"}
    /\ pc \notin {"infer", "emit"} => last_emit = <<>>

\* the second frame of a run, answered with a success result
C19_SecondFrameAnswered ==
    /\ EmitsSuccess
    /\ received = MaxFrames
    /\ \A c \in Sids : pending[c] = 0
    /\ last_emit[1].to = running

\* C20: the session that a success result names is in the store and its
\* newest entry has the emotions, confidence, face_detected, timestamp and
\* videoTime of the result; no session of the store has an empty history.
C20_ResultIsNewestEntry ==
    /\ EmitsSuccess =>
          /\ last_emit[1].session_id[1] \in Keys(video_sessions)
          /\ HistoryNow # <<>>
          /\ LET newest == HistoryNow[Len(HistoryNow)]
             IN  /\ newest.emotions = last_emit[1].emotions
                 /\ newest.confidence = last_emit[1].confidence
                 /\ newest.face_detected = last_emit[1].face_detected
                 /\ newest.timestamp = last_emit[1].timestamp
                 /\ newest.video_time = last_emit[1].videoTime
    /\ \A s \in Range(video_sessions) : s.emotion_history # <<>>

\* a success result with a face for a session that had an entry
C20_FaceAppended ==
    /\ EmitsSuccess
    /\ last_emit[1].face_detected
    /\ HistoryBefore # <<>>
    /\ Len(HistoryNow) = HistoryCap

\* the keys of the sessions that are created more than an hour before the
\* last second of the run: those a sweep of the run can find expired
LiveKeys ==
    {create_session_key(sid, NumUrl(n), t) :
        sid \in Sids, n \in {-1, -2}, t \in {u \in 0..ClockSlack : u + HOUR < MaxClock}}

====
